---- MODULE Spec2Model ----
(***************************************************************************)
(* The harvesting engine of TwitterScrap: TwitterScraper.scrape_tweets     *)
(* (src/scraper/twitter_scraper.py) as it is driven by the pipeline of     *)
(* src/main.py.  One run of the pipeline is one behaviour: the scraper is  *)
(* constructed, the login state is probed, every hashtag of HASHTAGS is    *)
(* navigated to and harvested by the extract/scroll loop, the list of      *)
(* tweets is returned and the pipeline closes the driver.                  *)
(*                                                                         *)
(* The browser is the environment: what a Selenium call returns (the page  *)
(* title, the elements found, the scroll height, a raised WebDriver error) *)
(* is chosen nondeterministically from small sets.                         *)
(***************************************************************************)
EXTENDS Integers, Sequences, FiniteSets, TLC

\* ---------------------------------------------------------------- bounds
\* number of hashtag queries of HASHTAGS that a run iterates over
MaxTags == 2
\* largest value of the max_tweets argument
MaxCap == 2
\* largest number of <article> elements one lookup returns
MaxCards == 2
\* largest number of post-scroll height measurements in one query: the
\* page stops growing at the latest at this measurement
MaxRounds == 2

\* largest length of the list given to deduplicate when it is checked alone
MaxLen == 3

\* ------------------------------------------------------- program constants
DEBUG_SCREENSHOTS_ENABLED == TRUE

\* the pipeline with deduplication switched off
DeduplicationOff ==
  FALSE

DEDUPLICATION_ENABLED ==
  TRUE

Tags == 1..MaxTags

\* values of document.body.scrollHeight
PageExtents == {100, 250}

\* Text is a sequence of characters; WS is the whitespace character.
WS == " "

\* card.text of the elements a page may show: whitespace only, clean text,
\* text in upper case padded with whitespace
CardTexts == { <<WS>>, <<"a">>, <<WS, "A", WS>> }

\* An element is either readable (card.text returns text) or faulty
\* (reading card.text raises, e.g. a stale element).
CardKinds == [fault : {FALSE}, text : CardTexts] \cup [fault : {TRUE}, text : {<<>>}]

\* the lists find_elements may return
Batches == UNION { [1..n -> CardKinds] : n \in 0..MaxCards }

\* ------------------------------------------------------------- str.strip
RECURSIVE LStrip(_)
LStrip(s) ==
  IF s = <<>> THEN s
  ELSE IF Head(s) = WS THEN LStrip(Tail(s)) ELSE s

RECURSIVE RStrip(_)
RStrip(s) ==
  IF s = <<>> THEN s
  ELSE IF s[Len(s)] = WS THEN RStrip(SubSeq(s, 1, Len(s) - 1)) ELSE s

\* strip that forgets the trailing whitespace
StripLeftOnly(s) ==
  LStrip(s)

Strip(s) ==
  RStrip(LStrip(s))

\* ------------------------------------------------------------ clean_text
\* the character classes of the regular expressions of clean_text
UpperLetters == {"A", "B"}
LowerLetters == {"a", "b", "h", "t", "p"}
Digits == {"1"}
WordChars == UpperLetters \cup LowerLetters \cup Digits \cup {"_"}

\* str.lower on one character
LowerChar(c) ==
  IF c = "A" THEN "a" ELSE IF c = "B" THEN "b" ELSE c

Lower(s) ==
  [i \in 1..Len(s) |-> LowerChar(s[i])]

\* s without its longest prefix of characters that are not whitespace (\S+)
RECURSIVE DropNonWs(_)
DropNonWs(s) ==
  IF s = <<>> THEN s
  ELSE IF Head(s) # WS THEN DropNonWs(Tail(s)) ELSE s

\* s without its longest prefix of word characters (\w+)
RECURSIVE DropWord(_)
DropWord(s) ==
  IF s = <<>> THEN s
  ELSE IF Head(s) \in WordChars THEN DropWord(Tail(s)) ELSE s

\* re.sub(r"http\S+", "", text)
RECURSIVE RemoveUrls(_)
RemoveUrls(s) ==
  IF Len(s) < 5 THEN s
  ELSE IF SubSeq(s, 1, 4) = <<"h", "t", "t", "p">> /\ s[5] # WS
         THEN RemoveUrls(DropNonWs(SubSeq(s, 5, Len(s))))
         ELSE <<Head(s)>> \o RemoveUrls(Tail(s))

\* re.sub(r"@\w+", "", text) with m = "@", re.sub(r"#\w+", "", text) with m = "#"
RECURSIVE RemoveTagged(_, _)
RemoveTagged(s, m) ==
  IF Len(s) < 2 THEN s
  ELSE IF s[1] = m /\ s[2] \in WordChars
         THEN RemoveTagged(DropWord(Tail(s)), m)
         ELSE <<Head(s)>> \o RemoveTagged(Tail(s), m)

\* re.sub(r"[^a-zA-Z\s]", " ", text)
LettersOnly(s) ==
  [i \in 1..Len(s) |-> IF s[i] \in UpperLetters \cup LowerLetters \cup {WS} THEN s[i] ELSE WS]

\* re.sub(r"\s+", " ", text)
RECURSIVE Collapse(_)
Collapse(s) ==
  IF Len(s) < 2 THEN s
  ELSE IF s[1] = WS /\ s[2] = WS THEN Collapse(Tail(s))
       ELSE <<Head(s)>> \o Collapse(Tail(s))

clean_text(text) ==
  IF text = <<>> THEN <<>>
  ELSE Strip(Collapse(LettersOnly(RemoveTagged(RemoveTagged(RemoveUrls(Lower(text)), "@"), "#"))))

\* the dict appended for a card with text t, the n-th Post created
Post(t, n) ==
  [username |-> "unknown", content |-> t, timestamp |-> n]

VARIABLES
  headless,       \* TwitterScraper.headless
  max_tweets,     \* the max_tweets argument of scrape_tweets
  pc,             \* position of the run
  driver,         \* "open" after webdriver.Chrome(...), "quit" after driver.quit()
  error,          \* the exception that ended the run, "none" if none
  probeLog,       \* results of the calls of _is_logged_in, in order
  confirmations,  \* number of returns of input("Press ENTER ...")
  probeFault,     \* the last call of _is_logged_in ended in its except clause
  tagIdx,         \* index in HASHTAGS of the current tag, 0 before the loop
  status,         \* per tag: the state of its query
  timedOut,       \* the wait for //article of the current tag timed out (warning logged)
  last_height,    \* local last_height
  heights,        \* the scroll heights measured for the current tag, in order
  rounds,         \* extraction rounds (for card in cards) completed for the current tag
  retries,        \* pause-and-look-again retries made for the current tag
  cards,          \* local cards
  cardIdx,        \* position of the for loop in cards
  roundBase,      \* len(tweets) when the current extraction round started
  tweets,         \* local tweets, raw_tweets of main.py once returned
  shots,          \* tags for which save_screenshot was called
  created,        \* per Post, in order of creation: the tag it was read under and its content as extracted
  unique,         \* main.py: tweets = deduplicate(raw_tweets)
  again,          \* the result of deduplicate applied to unique
  seen            \* local seen of deduplicate, as the last call left it

vars ==
  << headless, max_tweets, pc, driver, error, probeLog, confirmations, probeFault,
     tagIdx, status, timedOut, last_height, heights, rounds, retries, cards,
     cardIdx, roundBase, tweets, shots, created, unique, again, seen >>

authVars == << probeLog, confirmations, probeFault >>
queryVars == << tagIdx, status, timedOut, last_height, heights, rounds, retries >>
roundVars == << cards, cardIdx, roundBase, tweets, created >>
pipeVars == << unique, again, seen >>

\* ----------------------------------------------------------- deduplicate
\* seen kept from the call before (a module-level set)
StaleSeen ==
  seen

\* seen = set()
FreshSeen ==
  {}

\* the for loop of deduplicate over the tweets still to visit
RECURSIVE DedupLoop(_, _, _)
DedupLoop(rest, seenSet, unique_items) ==
  IF rest = <<>>
    THEN [unique_items |-> unique_items, seen |-> seenSet]
    ELSE IF Head(rest).content \notin seenSet
           THEN DedupLoop(Tail(rest), seenSet \cup {Head(rest).content},
                          Append(unique_items, Head(rest)))
           ELSE DedupLoop(Tail(rest), seenSet, unique_items)

\* deduplicate without seen.add(content): nothing is ever recognised
deduplicateNeverAdds(tweets_list) ==
  [unique_items |-> tweets_list, seen |-> FreshSeen]

deduplicate(tweets_list) ==
  DedupLoop(tweets_list, FreshSeen, <<>>)

\* main.py: scraper = TwitterScraper(headless=HEADLESS_MODE), then
\* scraper.scrape_tweets(max_tweets=MAX_TWEETS) starts with tweets = []
Init ==
  /\ headless \in BOOLEAN
  /\ max_tweets \in 0..MaxCap
  /\ pc = "probe1"
  /\ driver = "open"
  /\ error = "none"
  /\ probeLog = <<>>
  /\ confirmations = 0
  /\ probeFault = FALSE
  /\ tagIdx = 0
  /\ status = [t \in Tags |-> "Init"]
  /\ timedOut = FALSE
  /\ last_height = 0
  /\ heights = <<>>
  /\ rounds = 0
  /\ retries = 0
  /\ cards = <<>>
  /\ cardIdx = 0
  /\ roundBase = 0
  /\ tweets = <<>>
  /\ shots = {}
  /\ created = <<>>
  /\ unique = <<>>
  /\ again = <<>>
  /\ seen = {}

\* an exception e leaves scrape_tweets and, uncaught in main.py, ends the run
Raise(e) ==
  /\ pc' = "raised"
  /\ error' = e

\* a Selenium call raises; nothing in scrape_tweets or main.py catches it:
\* the frame of scrape_tweets is unwound, its locals (tweets, cards,
\* last_height) and the bookkeeping of the current tag are gone and main.py
\* never gets a list
BrowserFault ==
  /\ Raise("WebDriverException")
  /\ tweets' = <<>>
  /\ cards' = <<>>
  /\ cardIdx' = 0
  /\ roundBase' = 0
  /\ last_height' = 0
  /\ heights' = <<>>
  /\ created' = <<>>
  /\ rounds' = 0
  /\ retries' = 0
  /\ timedOut' = FALSE
  /\ UNCHANGED << headless, max_tweets, driver, authVars, tagIdx, status, shots, pipeVars >>

\* _is_logged_in without its try/except: a fault of the navigation or of the
\* title read leaves scrape_tweets
IsLoggedInPropagates(from, to) ==
  /\ pc = from
  /\ \E outcome \in {"home", "loginpage", "fault"} :
       /\ probeFault' = (outcome = "fault")
       /\ IF outcome = "fault"
            THEN /\ Raise("WebDriverException")
                 /\ UNCHANGED probeLog
            ELSE /\ probeLog' = Append(probeLog, outcome = "home")
                 /\ pc' = to
                 /\ UNCHANGED error
  /\ UNCHANGED << headless, max_tweets, driver, confirmations, queryVars,
                  roundVars, shots, pipeVars >>

\* _is_logged_in: get the home timeline and look at the title; a fault of
\* the navigation or of the title read is caught and gives False
IsLoggedIn(from, to) ==
  /\ pc = from
  /\ \E outcome \in {"home", "loginpage", "fault"} :
       /\ probeLog' = Append(probeLog, outcome = "home")
       /\ probeFault' = (outcome = "fault")
  /\ pc' = to
  /\ UNCHANGED << headless, max_tweets, driver, error, confirmations, queryVars,
                  roundVars, shots, pipeVars >>

Probe1 ==
  IsLoggedIn("probe1", "check1")

Probe2 ==
  IsLoggedIn("probe2", "check2")

\* self.close() with the raise left out: the error is noted and
\* scrape_tweets goes on to the tags
CloseAndGoOn(e) ==
  /\ driver' = "quit"
  /\ error' = e
  /\ pc' = "nexttag"

\* self.close(); raise RuntimeError(...)
CloseAndRaise(e) ==
  /\ driver' = "quit"
  /\ Raise(e)

\* AuthCheck without the headless branch: every failed probe prompts
AuthCheckAlwaysPrompts ==
  /\ pc = "check1"
  /\ pc' = IF probeLog[1] THEN "nexttag" ELSE "input"
  /\ UNCHANGED << headless, max_tweets, driver, error, authVars, queryVars, roundVars, shots, pipeVars >>

\* if not self._is_logged_in(): if self.headless: ... else: ...
AuthCheck ==
  /\ pc = "check1"
  /\ IF probeLog[1]
       THEN /\ pc' = "nexttag"
            /\ UNCHANGED << driver, error >>
       ELSE IF headless
              THEN CloseAndRaise("LoginRequired")
              ELSE /\ pc' = "input"
                   /\ UNCHANGED << driver, error >>
  /\ UNCHANGED << headless, max_tweets, authVars, queryVars, roundVars, shots, pipeVars >>

\* input("Press ENTER after logging in: ") returns
HumanConfirm ==
  /\ pc = "input"
  /\ confirmations' = confirmations + 1
  /\ pc' = "probe2"
  /\ UNCHANGED << headless, max_tweets, driver, error, probeLog, probeFault, queryVars,
                  roundVars, shots, pipeVars >>

\* Recheck that does not look at the result of the second probe
RecheckIgnoresProbe ==
  /\ pc = "check2"
  /\ pc' = "nexttag"
  /\ UNCHANGED << headless, max_tweets, driver, error, authVars, queryVars, roundVars, shots, pipeVars >>

\* if not self._is_logged_in(): ... raise RuntimeError("Failed to log in to Twitter")
Recheck ==
  /\ pc = "check2"
  /\ IF probeLog[2]
       THEN /\ pc' = "nexttag"
            /\ UNCHANGED << driver, error >>
       ELSE CloseAndRaise("LoginFailed")
  /\ UNCHANGED << headless, max_tweets, authVars, queryVars, roundVars, shots, pipeVars >>

\* for tag in HASHTAGS: self.driver.get(url)
Navigate ==
  /\ pc = "nexttag"
  /\ tagIdx < MaxTags
  /\ \/ /\ tagIdx' = tagIdx + 1
        /\ status' = [status EXCEPT ![tagIdx + 1] = "Loading"]
        /\ heights' = <<>>
        /\ rounds' = 0
        /\ retries' = 0
        /\ timedOut' = FALSE
        /\ pc' = "wait"
        /\ UNCHANGED << headless, max_tweets, driver, error, authVars, last_height,
                        roundVars, shots, pipeVars >>
     \/ BrowserFault

\* wait.until(presence_of_all_elements_located(//article)); a timeout is
\* logged with the page title, whose read may itself raise
WaitForCards ==
  /\ pc = "wait"
  /\ \/ /\ pc' = "measure0"
        /\ UNCHANGED << timedOut >>
        /\ UNCHANGED << headless, max_tweets, driver, error, authVars, tagIdx, status,
                        last_height, heights, rounds, retries, roundVars, shots, pipeVars >>
     \/ /\ timedOut' = TRUE
        /\ pc' = "measure0"
        /\ UNCHANGED << headless, max_tweets, driver, error, authVars, tagIdx, status,
                        last_height, heights, rounds, retries, roundVars, shots, pipeVars >>
     \/ BrowserFault

\* last_height = execute_script("return document.body.scrollHeight")
InitialExtent ==
  /\ pc = "measure0"
  /\ \/ /\ \E h \in PageExtents :
             /\ last_height' = h
             /\ heights' = <<h>>
        /\ pc' = "while"
        /\ UNCHANGED << headless, max_tweets, driver, error, authVars, tagIdx, status,
                        timedOut, rounds, retries, roundVars, shots, pipeVars >>
     \/ BrowserFault

\* the while condition with <= in place of <
LoopGuardInclusive ==
  Len(tweets) <= max_tweets

\* while len(tweets) < max_tweets
LoopGuard ==
  Len(tweets) < max_tweets

\* the while condition is false: on to the next tag
LoopExit ==
  /\ pc = "while"
  /\ ~LoopGuard
  /\ status' = [status EXCEPT ![tagIdx] = "Stopped"]
  /\ pc' = "nexttag"
  /\ UNCHANGED << headless, max_tweets, driver, error, authVars, tagIdx, timedOut,
                  last_height, heights, rounds, retries, roundVars, shots, pipeVars >>

\* the for loop over a non-empty cards starts
StartRound(batch) ==
  /\ cards' = batch
  /\ cardIdx' = 1
  /\ roundBase' = Len(tweets)
  /\ status' = [status EXCEPT ![tagIdx] = "Extracting"]
  /\ pc' = "extract"

\* cards = find_elements(//article); if not cards: ...
FindCards ==
  /\ pc = "while"
  /\ LoopGuard
  /\ \/ /\ \E batch \in Batches :
             IF batch = <<>>
               THEN /\ cards' = batch
                    /\ pc' = "retry"
                    /\ UNCHANGED << cardIdx, roundBase, status >>
               ELSE StartRound(batch)
        /\ UNCHANGED << headless, max_tweets, driver, error, authVars, tagIdx,
                        timedOut, last_height, heights, rounds, retries, tweets, created, shots, pipeVars >>
     \/ BrowserFault

\* RetryFind with  continue  in place of  break : an empty second lookup
\* goes back to the while condition
RetryFindContinues ==
  /\ pc = "retry"
  /\ \/ /\ \E batch \in Batches :
             IF batch = <<>>
               THEN /\ cards' = batch
                    /\ pc' = "while"
                    /\ UNCHANGED << cardIdx, roundBase, status, retries >>
               ELSE /\ StartRound(batch)
                    /\ retries' = retries + 1
        /\ UNCHANGED << headless, max_tweets, driver, error, authVars, tagIdx,
                        timedOut, last_height, heights, rounds, tweets, created, shots, pipeVars >>
     \/ BrowserFault

\* time.sleep(3); cards = find_elements(//article); if not cards: warn,
\* save_screenshot (a fault of it is swallowed), break
RetryFind ==
  /\ pc = "retry"
  /\ \/ /\ retries' = retries + 1
        /\ \E batch \in Batches :
             IF batch = <<>>
               THEN /\ cards' = batch
                    /\ shots' = IF DEBUG_SCREENSHOTS_ENABLED THEN shots \cup {tagIdx} ELSE shots
                    /\ status' = [status EXCEPT ![tagIdx] = "Aborted"]
                    /\ pc' = "nexttag"
                    /\ UNCHANGED << cardIdx, roundBase >>
               ELSE /\ StartRound(batch)
                    /\ UNCHANGED shots
        /\ UNCHANGED << headless, max_tweets, driver, error, authVars, tagIdx,
                        timedOut, last_height, heights, rounds, tweets, created, pipeVars >>
     \/ BrowserFault

\* Admit with tweets.insert(0, ...) in place of tweets.append(...)
AdmitInFront(c, ts) ==
  IF c.fault
    THEN ts
    ELSE IF Strip(c.text) = <<>>
           THEN ts
           ELSE <<Post(Strip(c.text), Len(ts) + 1)>> \o ts

\* Admit that skips a text already held in the list
AdmitUnseenOnly(c, ts) ==
  IF c.fault
    THEN ts
    ELSE IF Strip(c.text) = <<>> \/ \E i \in 1..Len(ts) : ts[i].content = Strip(c.text)
           THEN ts
           ELSE Append(ts, Post(Strip(c.text), Len(ts) + 1))

\* one iteration of  for card in cards:  try: text = card.text.strip() ...
\* the list of tweets after the card c has been handled
Admit(c, ts) ==
  IF c.fault
    THEN ts
    ELSE IF Strip(c.text) = <<>>
           THEN ts
           ELSE Append(ts, Post(Strip(c.text), Len(ts) + 1))

\* the bookkeeping of created for the card c: a Post is recorded when the
\* card admits one
Record(c, ts, cr) ==
  IF Len(Admit(c, ts)) > Len(ts)
    THEN Append(cr, [tag |-> tagIdx, content |-> Strip(c.text)])
    ELSE cr

\* ExtractCard with the try around the whole for loop: a faulty card ends
\* the batch
ExtractCardFaultEndsBatch ==
  /\ pc = "extract"
  /\ tweets' = Admit(cards[cardIdx], tweets)
  /\ created' = Record(cards[cardIdx], tweets, created)
  /\ IF cardIdx < Len(cards) /\ ~cards[cardIdx].fault
       THEN /\ cardIdx' = cardIdx + 1
            /\ UNCHANGED << pc, rounds, status >>
       ELSE /\ cardIdx' = cardIdx + 1
            /\ rounds' = rounds + 1
            /\ status' = [status EXCEPT ![tagIdx] = "Scrolling"]
            /\ pc' = "scroll"
  /\ UNCHANGED << headless, max_tweets, driver, error, authVars, tagIdx, timedOut,
                  last_height, heights, retries, cards, roundBase, shots, pipeVars >>

ExtractCard ==
  /\ pc = "extract"
  /\ tweets' = Admit(cards[cardIdx], tweets)
  /\ created' = Record(cards[cardIdx], tweets, created)
  /\ IF cardIdx < Len(cards)
       THEN /\ cardIdx' = cardIdx + 1
            /\ UNCHANGED << pc, rounds, status >>
       ELSE /\ cardIdx' = cardIdx + 1
            /\ rounds' = rounds + 1
            /\ status' = [status EXCEPT ![tagIdx] = "Scrolling"]
            /\ pc' = "scroll"
  /\ UNCHANGED << headless, max_tweets, driver, error, authVars, tagIdx, timedOut,
                  last_height, heights, retries, cards, roundBase, shots, pipeVars >>

\* execute_script("window.scrollTo(0, document.body.scrollHeight);"); sleep.
\* The for loop is over: cards is not read again before the next lookup
\* rebinds it, so the finished batch is dropped from the state here.
ScrollDown ==
  /\ pc = "scroll"
  /\ \/ /\ pc' = "measure"
        /\ cards' = <<>>
        /\ cardIdx' = 0
        /\ roundBase' = 0
        /\ UNCHANGED << headless, max_tweets, driver, error, authVars, queryVars,
                        tweets, created, shots, pipeVars >>
     \/ BrowserFault

\* the heights the next measurement may give
NextExtents ==
  IF Len(heights) >= MaxRounds THEN {last_height} ELSE PageExtents

\* "the page did not grow" instead of "the height did not change"
NotGrown(new_height, last) ==
  new_height <= last

\* if new_height == last_height: break
Unchanged(new_height, last) ==
  new_height = last

\* new_height = execute_script(...); if new_height == last_height: break;
\* last_height = new_height
MeasureExtent ==
  /\ pc = "measure"
  /\ \/ /\ \E new_height \in NextExtents :
             /\ heights' = Append(heights, new_height)
             /\ IF Unchanged(new_height, last_height)
                  THEN /\ status' = [status EXCEPT ![tagIdx] = "Converged"]
                       /\ pc' = "nexttag"
                       /\ UNCHANGED last_height
                  ELSE /\ last_height' = new_height
                       /\ pc' = "while"
                       /\ UNCHANGED status
        /\ UNCHANGED << headless, max_tweets, driver, error, authVars, tagIdx,
                        timedOut, rounds, retries, roundVars, shots, pipeVars >>
     \/ BrowserFault

\* return tweets: the frame of scrape_tweets is left, of its locals only the
\* returned list lives on (as raw_tweets of main.py)
Return ==
  /\ pc = "nexttag"
  /\ tagIdx = MaxTags
  /\ pc' = "returned"
  /\ last_height' = 0
  /\ heights' = <<>>
  /\ rounds' = 0
  /\ retries' = 0
  /\ timedOut' = FALSE
  /\ UNCHANGED << headless, max_tweets, driver, error, authVars, tagIdx, status,
                  roundVars, shots, pipeVars >>

\* main.py: scraper.close() after scrape_tweets has returned
Close ==
  /\ pc = "returned"
  /\ driver' = "quit"
  /\ pc' = "done"
  /\ UNCHANGED << headless, max_tweets, error, authVars, queryVars, roundVars, shots, pipeVars >>

\* CleanAll that builds new records and leaves the time of cleaning in them
CleanAllRestamps ==
  /\ pc = "done"
  /\ tweets' = [i \in 1..Len(tweets) |->
                  [username |-> "unknown", content |-> clean_text(tweets[i].content),
                   timestamp |-> Len(tweets) + 1]]
  /\ pc' = "cleaned"
  /\ UNCHANGED << headless, max_tweets, driver, error, authVars, queryVars, cards, cardIdx,
                  roundBase, created, shots, pipeVars >>

\* main.py: for t in raw_tweets: t["content"] = clean_text(t["content"])
CleanAll ==
  /\ pc = "done"
  /\ tweets' = [i \in 1..Len(tweets) |-> [tweets[i] EXCEPT !.content = clean_text(@)]]
  /\ pc' = "cleaned"
  /\ UNCHANGED << headless, max_tweets, driver, error, authVars, queryVars, cards, cardIdx,
                  roundBase, created, shots, pipeVars >>

\* main.py: tweets = deduplicate(raw_tweets) if DEDUPLICATION_ENABLED else raw_tweets
Dedupe ==
  /\ pc = "cleaned"
  /\ IF DEDUPLICATION_ENABLED
       THEN /\ unique' = deduplicate(tweets).unique_items
            /\ seen' = deduplicate(tweets).seen
       ELSE /\ unique' = tweets
            /\ UNCHANGED seen
  /\ pc' = "deduped"
  /\ UNCHANGED << headless, max_tweets, driver, error, authVars, queryVars, roundVars,
                  shots, again >>

\* deduplicate called once more, on its own result
Rededupe ==
  /\ pc = "deduped"
  /\ again' = deduplicate(unique).unique_items
  /\ seen' = deduplicate(unique).seen
  /\ pc' = "rededuped"
  /\ UNCHANGED << headless, max_tweets, driver, error, authVars, queryVars, roundVars,
                  shots, unique >>

Next ==
  \/ Probe1
  \/ AuthCheck
  \/ HumanConfirm
  \/ Probe2
  \/ Recheck
  \/ Navigate
  \/ WaitForCards
  \/ InitialExtent
  \/ LoopExit
  \/ FindCards
  \/ RetryFind
  \/ ExtractCard
  \/ ScrollDown
  \/ MeasureExtent
  \/ Return
  \/ Close
  \/ CleanAll
  \/ Dedupe

Spec ==
  Init /\ [][Next]_vars

\* the steps the interpreter takes on its own: every statement but the
\* input() of the login prompt, which returns when the human presses ENTER
Program ==
  Next /\ pc # "input"

\* a run in which the single thread keeps executing while it is not blocked
\* in input()
SpecFair ==
  Init /\ [][Next]_vars /\ WF_vars(Program)

\* ---------------------------------------------- deduplicate checked alone
\* the contents of the dicts given to deduplicate
DedupeContents == { <<>>, <<"a">>, <<"b">> }

\* the lists given to deduplicate: the i-th dict is the i-th created
DedupeInputs ==
  UNION { [1..n -> DedupeContents] : n \in 0..MaxLen }

\* deduplicate is called on a list of dicts with a content key
InitDedupe ==
  /\ headless = TRUE
  /\ max_tweets = MaxCap
  /\ pc = "cleaned"
  /\ driver = "quit"
  /\ error = "none"
  /\ probeLog = <<TRUE>>
  /\ confirmations = 0
  /\ probeFault = FALSE
  /\ tagIdx = MaxTags
  /\ status = [t \in Tags |-> "Converged"]
  /\ timedOut = FALSE
  /\ last_height = 0
  /\ heights = <<>>
  /\ rounds = 0
  /\ retries = 0
  /\ cards = <<>>
  /\ cardIdx = 0
  /\ roundBase = 0
  /\ \E cs \in DedupeInputs : tweets = [i \in 1..Len(cs) |-> Post(cs[i], i)]
  /\ shots = {}
  /\ created = <<>>
  /\ unique = <<>>
  /\ again = <<>>
  /\ seen = {}

NextDedupe ==
  \/ Dedupe
  \/ Rededupe

SpecDedupe ==
  InitDedupe /\ [][NextDedupe]_vars

\* ------------------------------------------------------------------ claims

\* C1 (as claimed): when the harvest yields at least max_tweets Posts, the
\* returned list has exactly max_tweets Posts, never more.
C1_ExactlyCap ==
  (pc = "returned" /\ Len(tweets) >= max_tweets) => Len(tweets) = max_tweets

\* C2 (as claimed): once an extraction round has brought the list to the cap
\* no browser action follows: the run is never past a scroll (about to
\* measure the height), nor past a navigation to a tag (waiting for its
\* elements, measuring its first height).
C2_StopsAtCap ==
  (Len(tweets) > 0 /\ Len(tweets) >= max_tweets) => pc \notin {"measure", "wait", "measure0"}

\* C3 (as claimed): no Post is admitted in a step that follows a state where
\* the list holds at least max_tweets Posts.
C3_NoAdmissionAfterCap ==
  [][Len(tweets) >= max_tweets => Len(tweets') <= Len(tweets)]_vars

\* C4 (as claimed): in every terminal state of the run, whether scrape_tweets
\* returned and the pipeline finished or an exception ended it, the driver
\* has been released.
C4_ReleasedOnEveryExit ==
  pc \in {"done", "raised"} => driver = "quit"

\* C5: headless and the login probe reports not-authenticated: the run does
\* nothing but raise the login-required error; no tag is navigated to, no
\* human confirmation is waited for, no Post is collected.
C5_HeadlessAuthFails ==
  (headless /\ Len(probeLog) >= 1 /\ ~probeLog[1]) =>
    /\ pc \in {"check1", "raised"}
    /\ pc = "raised" => error = "LoginRequired"
    /\ tagIdx = 0
    /\ \A t \in Tags : status[t] = "Init"
    /\ confirmations = 0
    /\ tweets = <<>>

C5_Witness ==
  headless /\ probeLog = <<FALSE>> /\ pc = "raised" /\ error = "LoginRequired"

\* C6: interactive and the first probe reports not-authenticated: the run
\* waits for the human confirmation, then probes once more; a second
\* not-authenticated raises the login-failed error before any tag is
\* navigated to, a second authenticated lets the harvest go on.  The probe
\* runs at most twice, the second time only after the confirmation.
C6_InteractiveReprobe ==
  /\ Len(probeLog) <= 2
  /\ confirmations <= 1
  /\ Len(probeLog) = 2 => (~headless /\ ~probeLog[1] /\ confirmations = 1)
  /\ pc = "probe2" => confirmations = 1
  /\ (~headless /\ Len(probeLog) = 1 /\ ~probeLog[1]) =>
       /\ pc \in {"check1", "input", "probe2"}
       /\ tagIdx = 0
       /\ error = "none"
  /\ (Len(probeLog) = 2 /\ ~probeLog[2]) =>
       /\ pc \in {"check2", "raised"}
       /\ pc = "raised" => error = "LoginFailed"
       /\ tagIdx = 0
       /\ tweets = <<>>
  /\ (Len(probeLog) = 2 /\ probeLog[2]) =>
       /\ pc \notin {"probe1", "check1", "input", "probe2"}
       /\ error \notin {"LoginRequired", "LoginFailed"}

C6_Witness ==
  ~headless /\ probeLog = <<FALSE, TRUE>> /\ confirmations = 1 /\ tagIdx >= 1

\* C7 (as claimed): a tag whose wait timed out and for which no element was
\* ever found ends Aborted, after exactly one retry and with a screenshot.
C7_TimeoutEndsAborted ==
  (pc = "nexttag" /\ tagIdx >= 1 /\ max_tweets >= 1 /\ timedOut /\ rounds = 0) =>
    /\ status[tagIdx] = "Aborted"
    /\ retries = 1
    /\ tagIdx \in shots

\* adjacent measurements among the first k differ
AllDiffer(k) ==
  \A i \in 1..(k - 1) : heights[i] # heights[i + 1]

\* C8: a tag's loop converges exactly at the first post-scroll measurement
\* that equals the one before it, after one extraction round per measurement
\* before that one; the measurements 100, 250, 250 give two rounds.  (The
\* first part is read in the state that follows the end of the tag's loop.)
C8_Convergence ==
  /\ (pc = "nexttag" /\ tagIdx >= 1 /\ status[tagIdx] = "Converged") =>
       /\ Len(heights) >= 2
       /\ heights[Len(heights)] = heights[Len(heights) - 1]
       /\ AllDiffer(Len(heights) - 1)
       /\ rounds = Len(heights) - 1
  /\ (Len(heights) >= 2 /\ heights[Len(heights)] = heights[Len(heights) - 1]) =>
       status[tagIdx] = "Converged"
  /\ heights = <<100, 250, 250>> => (status[tagIdx] = "Converged" /\ rounds = 2)

C8_Witness ==
  /\ heights = <<100, 250, 250>>
  /\ status[tagIdx] = "Converged"
  /\ rounds = 2
  /\ Len(tweets) < max_tweets

\* the elements of batch among the first k that are readable and not blank
Readable(batch, k) ==
  { i \in 1..k : ~batch[i].fault /\ \E j \in 1..Len(batch[i].text) : batch[i].text[j] # WS }

Faulty(batch) ==
  { i \in 1..Len(batch) : batch[i].fault }

\* C9: an extraction round admits one Post per readable, non-blank element,
\* before and after a faulty one; with N elements, one of them faulty and the
\* others with text, it admits N-1; a step of the round never raises.
C9_FaultIsolation ==
  /\ [](pc = "extract" =>
          /\ cardIdx \in 1..Len(cards)
          /\ Len(tweets) - roundBase = Cardinality(Readable(cards, cardIdx - 1)))
  /\ [](pc = "scroll" =>
          /\ Len(tweets) - roundBase = Cardinality(Readable(cards, Len(cards)))
          /\ (Cardinality(Faulty(cards)) = 1
                /\ Cardinality(Readable(cards, Len(cards))) = Len(cards) - 1)
               => Len(tweets) - roundBase = Len(cards) - 1)
  /\ [][pc = "extract" => (pc' \in {"extract", "scroll"} /\ error' = "none")]_vars

C9_Witness ==
  /\ pc = "scroll"
  /\ Len(cards) = 2
  /\ cards[1].fault
  /\ cards[2] = [fault |-> FALSE, text |-> <<"a">>]
  /\ Len(tweets) - roundBase = 1

Trimmed(t) ==
  /\ t # <<>>
  /\ t[1] # WS
  /\ t[Len(t)] # WS

\* C10: every Post of the list has content that is not empty and has no
\* whitespace at its ends; a blank element admits nothing.
C10_ContentTrimmed ==
  /\ [](\A i \in 1..Len(tweets) : Trimmed(tweets[i].content))
  /\ [][(pc = "extract" /\ ~cards[cardIdx].fault
           /\ \A j \in 1..Len(cards[cardIdx].text) : cards[cardIdx].text[j] = WS)
          => tweets' = tweets]_vars

C10_Witness ==
  /\ pc = "scroll"
  /\ cards = << [fault |-> FALSE, text |-> <<WS>>], [fault |-> FALSE, text |-> <<WS, "A", WS>>] >>
  /\ Len(tweets) = roundBase + 1
  /\ tweets[Len(tweets)].content = <<"A">>

\* the positions of P that hold the first occurrence of their content
FirstIdx(P) ==
  { i \in 1..Len(P) : \A j \in 1..(i - 1) : P[j].content # P[i].content }

\* the subsequence of P at the positions I
SubAt(P, I) ==
  LET F[k \in 0..Len(P)] ==
        IF k = 0 THEN <<>>
        ELSE IF k \in I THEN Append(F[k - 1], P[k]) ELSE F[k - 1]
  IN F[Len(P)]

Contents(P) ==
  { P[i].content : i \in 1..Len(P) }

\* C11: deduplicate(P) is the subsequence of P made of the first occurrence
\* of each distinct content: no content twice, every content of P kept, the
\* kept posts in the order of P, and no longer than P.
C11_FirstOccurrences ==
  pc \in {"deduped", "rededuped"} =>
    /\ unique = SubAt(tweets, FirstIdx(tweets))
    /\ \A i, j \in 1..Len(unique) : i # j => unique[i].content # unique[j].content
    /\ Contents(unique) = Contents(tweets)
    /\ \A i, j \in 1..Len(unique) : i < j => unique[i].timestamp < unique[j].timestamp
    /\ Len(unique) <= Len(tweets)

C11_Witness ==
  /\ pc = "deduped"
  /\ tweets = << Post(<<"a">>, 1), Post(<<"b">>, 2), Post(<<"a">>, 3) >>
  /\ unique = << Post(<<"a">>, 1), Post(<<"b">>, 2) >>

\* C12: deduplicate applied to its own result gives that result again; the
\* second call starts from an empty seen whatever the first call saw.
C12_Idempotent ==
  pc = "rededuped" => again = unique

C12_Witness ==
  /\ pc = "rededuped"
  /\ Len(unique) = 2
  /\ Len(tweets) = 3
  /\ again = unique

\* the contents that Posts read under two different tags were extracted with
SharedContents ==
  { created[i].content : i \in { k \in 1..Len(created) :
        \E j \in 1..Len(created) : /\ created[j].tag # created[k].tag
                                   /\ created[j].content = created[k].content } }

\* the Posts of the final result with content c
Kept(c) ==
  { k \in 1..Len(unique) : unique[k].content = c }

Ended ==
  {"Converged", "Aborted", "Stopped"}

\* the tag under which the i-th Post of the list was read
TagOf(i) ==
  created[tweets[i].timestamp].tag

\* C14: the tags are handled in the order of HASHTAGS, one at a time: every
\* tag before the current one has ended, every tag after it is untouched, a
\* tag is navigated to only as the successor of an ended tag and never
\* again, and in the list the Posts of an earlier tag come before the Posts
\* of a later tag.
C14_TagsInOrder ==
  /\ [](\A t \in Tags :
          /\ t < tagIdx => status[t] \in Ended
          /\ t > tagIdx => status[t] = "Init")
  /\ [](\A i, j \in 1..Len(tweets) :
          (i < j /\ Len(created) = Len(tweets)) => TagOf(i) <= TagOf(j))
  /\ [][\A t \in Tags :
          (status[t] # "Loading" /\ status'[t] = "Loading") =>
             /\ status[t] = "Init"
             /\ t = tagIdx + 1
             /\ tagIdx' = t
             /\ (tagIdx >= 1 => status[tagIdx] \in Ended)]_vars

C14_Witness ==
  /\ pc = "returned"
  /\ Len(tweets) = 2
  /\ TagOf(1) = 1
  /\ TagOf(2) = 2

\* C15 as stated: every run of scrape_tweets eventually returns or raises
C15_AlwaysTerminates ==
  <>(pc \in {"returned", "raised"})

\* C15: with page extents that change finitely often, every run in which the
\* login prompt, if reached, is answered, eventually returns or raises, and
\* every tag navigated to eventually ends (converged, aborted or stopped by
\* the while condition) unless the run raises.
C15_Terminates ==
  /\ <>[](pc = "input") \/ <>(pc \in {"returned", "raised"})
  /\ \A t \in Tags :
       (status[t] = "Loading") ~> (status[t] \in Ended \/ pc = "raised")

\* both tags converged over rounds of blank or unreadable cards only
C15_Witness ==
  /\ pc = "returned"
  /\ max_tweets = MaxCap
  /\ tweets = <<>>
  /\ \A t \in Tags : status[t] = "Converged"

\* C16: a tag ends Aborted, with its diagnostic capture, only if no
\* extraction round over a visible element was executed for it.
C16_AbortOnlyWithoutContent ==
  (pc = "nexttag" /\ tagIdx >= 1 /\ status[tagIdx] = "Aborted") => rounds = 0

\* the i-th Post of the list is the i-th Post created
Tracked ==
  Len(created) = Len(tweets)

C18_OvershootBound ==
  /\ pc = "extract" => roundBase < max_tweets
  /\ max_tweets >= 1 => Len(tweets) <= (max_tweets - 1) + MaxCards
  /\ max_tweets <= 0 => (tweets = <<>> /\ pc # "extract" /\ rounds = 0)

\* the bound is met: the last round started one Post below the cap and
\* admitted a full batch
C18_Witness ==
  /\ pc = "returned"
  /\ max_tweets = MaxCap
  /\ Len(tweets) = (MaxCap - 1) + MaxCards

\* a run with cap 0 returns the empty list
C18_WitnessZero ==
  /\ pc = "returned"
  /\ max_tweets = 0
  /\ tweets = <<>>

\* the cards of the batch that have a non-empty text
WithText(batch) ==
  { k \in 1..Len(batch) : ~batch[k].fault /\ Strip(batch[k].text) # <<>> }

\* ts is ps with Posts added at the end
Extends(ts, ps) ==
  /\ Len(ts) >= Len(ps)
  /\ \A i \in 1..Len(ps) : ts[i] = ps[i]

\* C19: while scrape_tweets runs the list only grows at its end; a round
\* adds one Post for every card of its batch with a non-empty text, whether
\* or not that text is in the list already, and every such Post counts in
\* the while condition; steps other than the handling of a card (waits,
\* timeouts, retries, aborts, scrolls, measurements) leave the list as it is.
C19_AppendOnlyUnfiltered ==
  /\ [](pc = "scroll" => Len(tweets) = roundBase + Cardinality(WithText(cards)))
  /\ [][(pc \in {"nexttag", "wait", "measure0", "while", "retry", "extract", "scroll", "measure"}
         /\ pc' # "raised")
        => /\ Extends(tweets', tweets)
           /\ (pc # "extract" => tweets' = tweets)
           /\ (pc = "extract" =>
                 Len(tweets') = Len(tweets) + (IF cardIdx \in WithText(cards) THEN 1 ELSE 0))]_vars

\* the same text, visible in two rounds of the first tag, gave two Posts
C19_Witness ==
  /\ pc = "scroll"
  /\ tagIdx = 1
  /\ rounds = 2
  /\ tweets = <<Post(<<"a">>, 1), Post(<<"a">>, 2)>>

\* the places of the run at which no statement touches the driver: the run
\* has raised, or main.py is past scraper.close()
DriverFree ==
  {"raised", "done", "cleaned", "deduped"}

\* C20: the driver is quit at most once and is not used after it: once it is
\* quit the run is at a place that does not touch the driver, and every later
\* step is a step of the pipeline after scraper.close() (cleaning,
\* deduplication), never a probe, navigation, lookup, script or close.
C20_NoUseAfterClose ==
  /\ [](driver = "quit" => pc \in DriverFree)
  /\ [][driver = "quit" =>
          /\ driver' = "quit"
          /\ pc \in {"done", "cleaned"}
          /\ pc' \in {"cleaned", "deduped"}]_vars
  /\ [][(driver # "quit" /\ driver' = "quit") =>
          \/ pc = "returned" /\ pc' = "done"
          \/ pc = "check1" /\ pc' = "raised" /\ error' = "LoginRequired"
          \/ pc = "check2" /\ pc' = "raised" /\ error' = "LoginFailed"]_vars

\* the second probe failed: the driver was closed and the run raised
C20_Witness ==
  /\ pc = "raised"
  /\ error = "LoginFailed"
  /\ driver = "quit"
  /\ confirmations = 1

\* C21: a fault raised inside _is_logged_in never leaves it: the probe
\* returns, reports not-authenticated, and the run goes the way of a failed
\* probe: headless, it raises the login-required error with the driver quit
\* and no tag navigated to; interactive, it reaches the login prompt, and a
\* fault of the probe after the prompt raises the login-failed error.
C21_ProbeFaultContained ==
  /\ [][(pc = "probe1" \/ pc = "probe2") =>
          (/\ pc' = (IF pc = "probe1" THEN "check1" ELSE "check2")
           /\ error' = error
           /\ driver' = driver
           /\ Len(probeLog') = Len(probeLog) + 1)]_vars
  /\ [](probeFault =>
          /\ Len(probeLog) >= 1
          /\ ~probeLog[Len(probeLog)]
          /\ tagIdx = 0
          /\ error \in {"none", "LoginRequired", "LoginFailed"}
          /\ (pc = "raised" => driver = "quit")
          /\ (headless =>
                /\ pc \in {"check1", "raised"}
                /\ confirmations = 0
                /\ (pc = "raised" => error = "LoginRequired"))
          /\ (~headless /\ Len(probeLog) = 1 =>
                /\ pc \in {"check1", "input", "probe2"}
                /\ error = "none")
          /\ (~headless /\ Len(probeLog) = 2 =>
                /\ pc \in {"check2", "raised"}
                /\ (pc = "raised" => error = "LoginFailed")))
  /\ [][(probeFault /\ pc = "check1") =>
          pc' = (IF headless THEN "raised" ELSE "input")]_vars

\* headless, the only probe faulted: login-required, driver quit, no tag
C21_Witness ==
  /\ headless
  /\ probeFault
  /\ probeLog = <<FALSE>>
  /\ pc = "raised"
  /\ error = "LoginRequired"
  /\ driver = "quit"
  /\ tagIdx = 0

\* interactive, the first probe faulted: the run is at the login prompt
C21_WitnessInteractive ==
  /\ ~headless
  /\ probeFault
  /\ pc = "input"
  /\ confirmations = 0
====
